---------------------------- MODULE Spec2Model ----------------------------
(***************************************************************************)
(* Model of the timesheet extraction pipeline of src/app.py:               *)
(* detect_headers, extract_developer_name, clean_and_parse_date,           *)
(* extract_data_from_xlsx, is_valid_excel_file, process_zip_file and       *)
(* create_monthly_summary, and the filters and pivot view of main.         *)
(*                                                                         *)
(* Text is a sequence of one-character strings, so that the string         *)
(* operations of the code (lower, strip, split, replace, startswith,       *)
(* endswith, in, title, isalpha) are computed and not assumed.             *)
(***************************************************************************)
EXTENDS Integers, Sequences, FiniteSets, TLC

VARIABLES
    pc,               \* where the caller is: "start", ..., "done"
    \* detect_headers
    df,               \* the grid handed to it
    header,           \* (header_row, date_col, hours_col)
    \* is_valid_excel_file, extract_developer_name
    filename,         \* the entry name
    valid,            \* result of is_valid_excel_file
    dev_name,         \* result of extract_developer_name
    \* clean_and_parse_date
    the_date,         \* a calendar date
    the_fmt,          \* the index of a format of date_formats
    the_text,         \* the date written in that format
    parsed,           \* result of clean_and_parse_date
    \* extract_data_from_xlsx
    file_bytes,       \* the file: what read_excel makes of it
    file_name,        \* its name
    data,             \* the records returned, <<>> with an error
    error,            \* the error returned, <<>> with records
    \* process_zip_file
    zip_file,         \* the archive: whether it opens, and its entries in order
    xlsx_files,       \* names of the eligible entries
    done_i,             \* number of eligible entries handled
    all_data,         \* one record sequence per processed file
    error_messages,
    processed_files,
    skipped_files,
    \* create_monthly_summary
    combined_df,      \* the record set
    summary,          \* the buckets
    \* main: the filters and the pivot view
    selected_developers,
    date_range,       \* what the date input returns: one date or two
    filtered_df,
    filtered_summary,
    pivot_with_totals

headerVars == <<df, header>>

nameVars == <<filename, valid, dev_name>>

dateVars == <<the_date, the_fmt, the_text, parsed>>

extractVars == <<file_bytes, file_name, data, error>>

batchVars ==
    <<zip_file, xlsx_files, done_i, all_data, error_messages, processed_files,
      skipped_files>>

pivotVars ==
    <<selected_developers, date_range, filtered_df, filtered_summary,
      pivot_with_totals>>

summaryVars == <<combined_df, summary, pivotVars>>

vars == <<pc, headerVars, nameVars, dateVars, extractVars, batchVars, summaryVars>>

(***************************************************************************)
(* Python string operations on sequences of characters.                    *)
(***************************************************************************)
UpperLetters ==
    <<"A","B","C","D","E","F","G","H","I","J","K","L","M",
      "N","O","P","Q","R","S","T","U","V","W","X","Y","Z">>

LowerLetters ==
    <<"a","b","c","d","e","f","g","h","i","j","k","l","m",
      "n","o","p","q","r","s","t","u","v","w","x","y","z">>

IsUpperChar(c) == \E i \in DOMAIN UpperLetters : UpperLetters[i] = c

IsLowerChar(c) == \E i \in DOMAIN LowerLetters : LowerLetters[i] = c

IsLetter(c) == IsUpperChar(c) \/ IsLowerChar(c)

LowerChar(c) ==
    IF IsUpperChar(c)
    THEN LowerLetters[CHOOSE i \in DOMAIN UpperLetters : UpperLetters[i] = c]
    ELSE c

UpperChar(c) ==
    IF IsLowerChar(c)
    THEN UpperLetters[CHOOSE i \in DOMAIN LowerLetters : LowerLetters[i] = c]
    ELSE c

\* str.lower()
Lower(s) == [i \in 1..Len(s) |-> LowerChar(s[i])]

\* str.startswith(p)
StartsWith(s, p) == Len(p) <= Len(s) /\ SubSeq(s, 1, Len(p)) = p

\* str.endswith(p)
EndsWith(s, p) ==
    Len(p) <= Len(s) /\ SubSeq(s, Len(s) - Len(p) + 1, Len(s)) = p

\* p occurs in s at position i
OccursAt(s, p, i) ==
    i + Len(p) - 1 <= Len(s) /\ SubSeq(s, i, i + Len(p) - 1) = p

\* p in s
Contains(s, p) == \E i \in 1..(Len(s) + 1) : OccursAt(s, p, i)

\* str.strip(): leading and trailing blanks removed
Strip(s) ==
    LET keep == {i \in 1..Len(s) : s[i] # " "}
    IN  IF keep = {} THEN <<>>
        ELSE LET lo == CHOOSE i \in keep : \A j \in keep : i <= j
                 hi == CHOOSE i \in keep : \A j \in keep : j <= i
             IN  SubSeq(s, lo, hi)

RECURSIVE SplitFrom(_, _, _, _)
\* str.split(ch): cur is the segment being read from position i on
SplitFrom(s, ch, i, cur) ==
    IF i > Len(s) THEN <<cur>>
    ELSE IF s[i] = ch
         THEN <<cur>> \o SplitFrom(s, ch, i + 1, <<>>)
         ELSE SplitFrom(s, ch, i + 1, Append(cur, s[i]))

Split(s, ch) == SplitFrom(s, ch, 1, <<>>)

RECURSIVE RemoveFrom(_, _, _)
\* str.replace(p, ''): non-overlapping occurrences, left to right
RemoveFrom(s, p, i) ==
    IF i > Len(s) THEN <<>>
    ELSE IF OccursAt(s, p, i)
         THEN RemoveFrom(s, p, i + Len(p))
         ELSE <<s[i]>> \o RemoveFrom(s, p, i + 1)

Remove(s, p) == RemoveFrom(s, p, 1)

\* str.isalpha(): non-empty and letters only
IsAlpha(s) == Len(s) > 0 /\ \A i \in 1..Len(s) : IsLetter(s[i])

\* str.title(): a letter after a letter is lowered, any other letter raised
Title(s) ==
    [i \in 1..Len(s) |->
        IF i > 1 /\ IsLetter(s[i - 1]) THEN LowerChar(s[i]) ELSE UpperChar(s[i])]

(***************************************************************************)
(* Cells of a grid read with header=None: text, a number, a timestamp or   *)
(* NaN (an empty cell).  A date is a record [y, m, d].                     *)
(***************************************************************************)
NoDate == [y |-> 0, m |-> 0, d |-> 0]

TextCell(s) == [kind |-> "text", text |-> s, num |-> 0, date |-> NoDate]

NumCell(n) == [kind |-> "num", text |-> <<>>, num |-> n, date |-> NoDate]

StampCell(dt) == [kind |-> "stamp", text |-> <<>>, num |-> 0, date |-> dt]

NaNCell == [kind |-> "nan", text |-> <<>>, num |-> 0, date |-> NoDate]

Digits == <<"0","1","2","3","4","5","6","7","8","9">>

RECURSIVE NatStr(_)
\* str(n) for n >= 0
NatStr(n) ==
    IF n < 10 THEN <<Digits[n + 1]>>
    ELSE NatStr(n \div 10) \o <<Digits[(n % 10) + 1]>>

\* str(n)
IntStr(n) == IF n < 0 THEN <<"-">> \o NatStr(0 - n) ELSE NatStr(n)

\* n written with at least w digits, zero padded (strftime %m, %d, %Y)
Padded(n, w) ==
    LET s == NatStr(n)
    IN  [i \in 1..(IF Len(s) < w THEN w - Len(s) ELSE 0) |-> "0"] \o s

\* '%Y-%m-%d' text of a date
IsoText(dt) ==
    Padded(dt.y, 4) \o <<"-">> \o Padded(dt.m, 2) \o <<"-">> \o Padded(dt.d, 2)

\* str(cell)
Str(cell) ==
    CASE cell.kind = "text" -> cell.text
      [] cell.kind = "num" -> IntStr(cell.num)
      [] cell.kind = "stamp" -> IsoText(cell.date) \o <<" ","0","0",":","0","0",":","0","0">>
      [] OTHER -> <<"n","a","n">>

(***************************************************************************)
(* detect_headers                                                          *)
(***************************************************************************)
None == -1

HeaderWindow == 10

\* date_col, hours_col, header_row = None, None, None
NoHeader == [header_row |-> None, date_col |-> None, hours_col |-> None]

DateKeywords ==
    {<<"d","a","t","e">>, <<"d","a","y">>, <<"d","a","t","u","m">>, <<"f","e","c","h","a">>}

HoursKeywords ==
    {<<"h","o","u","r">>,
     <<"t","i","m","e">>,
     <<"w","o","r","k">>,
     <<"d","u","r","a","t","i","o","n">>,
     <<"h","r","s">>,
     <<"h","o","r","a","s">>}

\* Header texts with a date keyword, an hours keyword, both, and neither.
HeaderCells ==
    {TextCell(<<"D","a","t","e">>), TextCell(<<"H","o","u","r","s">>),
     TextCell(<<"W","o","r","k"," ","D","a","t","e">>), NaNCell}

\* Cells of a date column: a date as text, a timestamp, a text that is no
\* date, an empty cell.
DateCells ==
    {TextCell(<<"2","0","2","4","-","0","1","-","0","5">>),
     StampCell([y |-> 2024, m |-> 2, d |-> 13]),
     TextCell(<<"n","/","a">>), NaNCell}

\* Cells of an hours column: numbers above, at and below zero, a number as
\* text, a text that is no number.
HoursCells ==
    {NumCell(8), NumCell(0), NumCell(-3), TextCell(<<"4">>),
     TextCell(<<"n","/","a">>)}

\* Every cell a grid of the model can hold.
GridCells == HeaderCells \cup DateCells \cup HoursCells

\* len(df)
NRows(g) == Len(g)

\* len(df.columns)
NCols(g) == IF Len(g) = 0 THEN 0 ELSE Len(g[1])

\* df.iloc[r, c], r and c counted from 0
ILoc(g, r, c) == g[r + 1][c + 1]

\* str(df.iloc[r, c]).lower().strip()
cell_val(cell) == Strip(Lower(Str(cell)))

\* any(keyword in cell_val for keyword in ['date', 'day', 'datum', 'fecha'])
HasDateKeyword(cell) == \E keyword \in DateKeywords : Contains(cell_val(cell), keyword)

\* any(keyword in cell_val for keyword in ['hour', 'time', 'work', ...])
HasHoursKeyword(cell) == \E keyword \in HoursKeywords : Contains(cell_val(cell), keyword)

\* The two keyword tests, tabulated once over the cells of the model.
IsDateHeader == [cell \in GridCells |-> HasDateKeyword(cell)]

IsHoursHeader == [cell \in GridCells |-> HasHoursKeyword(cell)]

\* The temporaries of one row before its columns are scanned.
RowStart ==
    [row_has_date |-> FALSE, row_has_hours |-> FALSE,
     temp_date_col |-> None, temp_hours_col |-> None]

\* ScanCell with "first match wins": a column found earlier is kept.
ScanCell_FirstMatch(g, r, c, t) ==
    LET cell == ILoc(g, r, c)
        t1 == IF IsDateHeader[cell] /\ ~t.row_has_date
              THEN [t EXCEPT !.temp_date_col = c, !.row_has_date = TRUE]
              ELSE t
    IN  IF IsHoursHeader[cell] /\ ~t1.row_has_hours
        THEN [t1 EXCEPT !.temp_hours_col = c, !.row_has_hours = TRUE]
        ELSE t1

\* One pass of the inner loop: column c of row r.
ScanCell(g, r, c, t) ==
    LET cell == ILoc(g, r, c)
        t1 == IF IsDateHeader[cell]
              THEN [t EXCEPT !.temp_date_col = c, !.row_has_date = TRUE]
              ELSE t
    IN  IF IsHoursHeader[cell]
        THEN [t1 EXCEPT !.temp_hours_col = c, !.row_has_hours = TRUE]
        ELSE t1

RECURSIVE ScanRow(_, _, _, _)
\* The inner loop over the columns c .. len(df.columns)-1 of row r.
ScanRow(g, r, c, t) ==
    IF c >= NCols(g) THEN t
    ELSE ScanRow(g, r, c + 1, ScanCell(g, r, c, t))

Min(a, b) == IF a <= b THEN a ELSE b

RECURSIVE ScanRows(_, _)
\* The outer loop over the rows r .. min(10, len(df))-1, left at the first
\* row that has both kinds of header.
ScanRows(g, r) ==
    IF r >= Min(HeaderWindow, NRows(g))
    THEN NoHeader
    ELSE LET t == ScanRow(g, r, 0, RowStart)
         IN  IF t.row_has_date /\ t.row_has_hours
             THEN [header_row |-> r, date_col |-> t.temp_date_col,
                   hours_col |-> t.temp_hours_col]
             ELSE ScanRows(g, r + 1)

detect_headers(g) == ScanRows(g, 0)

(***************************************************************************)
(* Specification of detect_headers: a grid is drawn, the function applied. *)
(***************************************************************************)
MaxCols == 2

MaxLead == 11

HeaderRows(w) == [1..w -> HeaderCells]

\* Grids of w columns: lead equal rows, then up to two arbitrary rows.
HeaderGrids(w) ==
    {[i \in 1..lead |-> [j \in 1..w |-> fill]] \o tail :
        lead \in 0..MaxLead, fill \in HeaderCells,
        tail \in {<<>>} \cup {<<a>> : a \in HeaderRows(w)}
                 \cup {<<a, b>> : a \in HeaderRows(w), b \in HeaderRows(w)}}

NameIdle == filename = <<>> /\ valid = FALSE /\ dev_name = <<>>

DateIdle == the_date = NoDate /\ the_fmt = 0 /\ the_text = <<>> /\ parsed = NoDate

ExtractIdle == file_bytes = <<>> /\ file_name = <<>> /\ data = <<>> /\ error = <<>>

BatchIdle ==
    /\ zip_file = [opens |-> FALSE, entries |-> <<>>] /\ xlsx_files = <<>> /\ done_i = 0 /\ all_data = <<>>
    /\ error_messages = <<>> /\ processed_files = <<>> /\ skipped_files = <<>>

\* No pivot view: none is shown for an empty record set.
NoPivot == [index |-> <<>>, columns |-> <<>>, cells |-> <<>>]

PivotIdle ==
    /\ selected_developers = {} /\ date_range = <<>>
    /\ filtered_df = <<>> /\ filtered_summary = <<>>
    /\ pivot_with_totals = NoPivot

SummaryIdle == combined_df = <<>> /\ summary = <<>> /\ PivotIdle

InitHeaders ==
    /\ \E w \in 1..MaxCols : df \in HeaderGrids(w)
    /\ header = NoHeader
    /\ pc = "start"
    /\ NameIdle /\ DateIdle /\ ExtractIdle /\ BatchIdle /\ SummaryIdle

DetectHeaders ==
    /\ pc = "start"
    /\ header' = detect_headers(df)
    /\ pc' = "done"
    /\ UNCHANGED <<df, nameVars, dateVars, extractVars, batchVars, summaryVars>>

NextHeaders == DetectHeaders

SpecHeaders == InitHeaders /\ [][NextHeaders]_vars

\* Rows of the search window, and the columns of a row with each keyword.
WindowRows(g) == {r \in 0..(NRows(g) - 1) : r < 10}

DateColsOf(g, r) == {c \in 0..(NCols(g) - 1) : IsDateHeader[ILoc(g, r, c)]}

HoursColsOf(g, r) == {c \in 0..(NCols(g) - 1) : IsHoursHeader[ILoc(g, r, c)]}

QualifyingRows(g) ==
    {r \in WindowRows(g) : DateColsOf(g, r) # {} /\ HoursColsOf(g, r) # {}}

Lowest(S) == CHOOSE x \in S : \A y \in S : x <= y

Highest(S) == CHOOSE x \in S : \A y \in S : y <= x

\* C1: detect_headers returns the lowest row among the first 10 that has a
\* date keyword cell and an hours keyword cell, with the highest column
\* matching each keyword set on that row; with no such row all three results
\* are None.
C1_HeaderIsFirstQualifyingRow ==
    pc = "done" =>
        IF QualifyingRows(df) = {}
        THEN header = NoHeader
        ELSE LET r == Lowest(QualifyingRows(df))
             IN  /\ header.header_row = r
                 /\ header.date_col = Highest(DateColsOf(df, r))
                 /\ header.hours_col = Highest(HoursColsOf(df, r))

\* A header found below row 0, on a row with two date candidates, while a
\* later row of the window qualifies as well.
C1_Witness ==
    /\ pc = "done"
    /\ header.header_row > 0
    /\ Cardinality(DateColsOf(df, header.header_row)) > 1
    /\ \E r \in QualifyingRows(df) : r > header.header_row

\* C2: every located header has row < 10 and dateColumn # hoursColumn.
C2_HeaderColumnsDistinct ==
    (pc = "done" /\ header.header_row # None) =>
        /\ header.header_row < 10
        /\ header.date_col # header.hours_col

(***************************************************************************)
(* is_valid_excel_file                                                     *)
(***************************************************************************)
XlsxExt == <<".","x","l","s","x">>

XlsExt == <<".","x","l","s">>

is_valid_excel_file(name) ==
    IF StartsWith(name, <<"_","_","M","A","C","O","S","X","/">>) \/ Contains(name, <<".","_">>)
    THEN FALSE
    ELSE IF StartsWith(name, <<".">>) \/ Contains(name, <<"/",".","D","S","_","S","t","o","r","e">>)
    THEN FALSE
    ELSE IF ~(EndsWith(Lower(name), XlsxExt) \/ EndsWith(Lower(name), XlsExt))
    THEN FALSE
    ELSE IF EndsWith(name, <<"/">>)
    THEN FALSE
    ELSE TRUE

(***************************************************************************)
(* extract_developer_name                                                  *)
(***************************************************************************)
Unknown == <<"U","n","k","n","o","w","n">>

Last(q) == q[Len(q)]

\* filename.split('/')[-1].replace('.xlsx', '').replace('.xls', '')
base_name(name) == Remove(Remove(Last(Split(name, "/")), XlsxExt), XlsExt)

extract_developer_name(name) ==
    LET base == base_name(name)
    IN  IF Contains(base, <<"*">>)
        THEN Title(Strip(Head(Split(base, "*"))))
        ELSE LET first_words == Strip(Head(Split(base, "_")))
                 first_word == Strip(Head(Split(first_words, " ")))
             IN  IF first_word # <<>> /\ IsAlpha(first_word)
                 THEN Title(first_word)
                 ELSE Unknown

(***************************************************************************)
(* Specification of the two filename functions: an entry name is drawn,    *)
(* is_valid_excel_file and then extract_developer_name are applied.        *)
(***************************************************************************)
MaxStem == 3

StemChars == {"a", "B", "1", "*", "_", " ", "."}

Stems == UNION {[1..n -> StemChars] : n \in 0..MaxStem}

Prefixes == {<<>>, <<"d","/">>, <<"_","_","M","A","C","O","S","X","/">>, <<"d","/",".","D","S","_","S","t","o","r","e","/">>}

Endings == {XlsxExt, XlsExt, <<".","X","L","S","X">>, <<".","t","x","t">>, <<"/">>}

EntryNames == {p \o stem \o e : p \in Prefixes, stem \in Stems, e \in Endings}

HeadersIdle == df = <<>> /\ header = NoHeader

InitNames ==
    /\ filename \in EntryNames
    /\ valid = FALSE
    /\ dev_name = <<>>
    /\ pc = "start"
    /\ HeadersIdle /\ DateIdle /\ ExtractIdle /\ BatchIdle /\ SummaryIdle

CheckEntry ==
    /\ pc = "start"
    /\ valid' = is_valid_excel_file(filename)
    /\ pc' = "checked"
    /\ UNCHANGED <<filename, dev_name>>
    /\ UNCHANGED <<headerVars, dateVars, extractVars, batchVars, summaryVars>>

\* extract_developer_name is called for eligible entries only.
InferName ==
    /\ pc = "checked"
    /\ valid
    /\ dev_name' = extract_developer_name(filename)
    /\ pc' = "done"
    /\ UNCHANGED <<filename, valid>>
    /\ UNCHANGED <<headerVars, dateVars, extractVars, batchVars, summaryVars>>

NextNames == CheckEntry \/ InferName

SpecNames == InitNames /\ [][NextNames]_vars

\* The '/'-separated path segments of a name.
Segments(name) == Split(name, "/")

\* C3: is_valid_excel_file accepts a name only if no rejection rule applies:
\* it is no metadata sidecar path, neither the name nor any path segment of
\* it starts with '.', it ends in .xlsx or .xls whatever the case, and it
\* does not end with '/'.
C3_AcceptedOnlyIfNoRuleApplies ==
    (pc # "start" /\ valid) =>
        /\ ~StartsWith(filename, <<"_","_","M","A","C","O","S","X","/">>)
        /\ ~Contains(filename, <<".","_">>)
        /\ ~StartsWith(filename, <<".">>)
        /\ \A i \in DOMAIN Segments(filename) : ~StartsWith(Segments(filename)[i], <<".">>)
        /\ \/ EndsWith(Lower(filename), XlsxExt)
           \/ EndsWith(Lower(filename), XlsExt)
        /\ ~EndsWith(filename, <<"/">>)

\* The base name as the claim reads it: the last path segment without its
\* trailing spreadsheet extension.
StatedBase(name) ==
    LET seg == Last(Split(name, "/"))
    IN  IF EndsWith(Lower(seg), XlsxExt) THEN SubSeq(seg, 1, Len(seg) - 5)
        ELSE IF EndsWith(Lower(seg), XlsExt) THEN SubSeq(seg, 1, Len(seg) - 4)
        ELSE seg

\* The text before the first occurrence of one of the characters of stops.
Before(txt, stops) ==
    LET at == {i \in 1..Len(txt) : txt[i] \in stops}
    IN  IF at = {} THEN txt ELSE SubSeq(txt, 1, Lowest(at) - 1)

\* The leading token of a base name: what precedes the first marker,
\* underscore or blank of the trimmed base name.
LeadingToken(name) == Before(Strip(StatedBase(name)), {"*", "_", " "})

\* C4: a base name <token>*<rest> gives <token> title-cased; a base name
\* <token>_<rest> without '*' gives <token> title-cased; a filename with no
\* alphabetic leading token gives "Unknown".
C4_NameFromLeadingToken ==
    pc = "done" =>
        LET base == StatedBase(filename)
        IN  /\ (Contains(base, <<"*">>) /\ IsAlpha(Before(base, {"*"})))
                => dev_name = Title(Before(base, {"*"}))
            /\ (~Contains(base, <<"*">>) /\ Contains(base, <<"_">>)
                    /\ IsAlpha(Before(base, {"_"})))
                => dev_name = Title(Before(base, {"_"}))
            /\ ~IsAlpha(LeadingToken(filename)) => dev_name = Unknown

(***************************************************************************)
(* clean_and_parse_date.  A format is the sequence of its directives and   *)
(* literal characters; a date is [y, m, d]; NaT is the date of no date.    *)
(***************************************************************************)
NaT == NoDate

MonthNames ==
    <<<<"J","a","n","u","a","r","y">>,
      <<"F","e","b","r","u","a","r","y">>,
      <<"M","a","r","c","h">>,
      <<"A","p","r","i","l">>,
      <<"M","a","y">>,
      <<"J","u","n","e">>,
      <<"J","u","l","y">>,
      <<"A","u","g","u","s","t">>,
      <<"S","e","p","t","e","m","b","e","r">>,
      <<"O","c","t","o","b","e","r">>,
      <<"N","o","v","e","m","b","e","r">>,
      <<"D","e","c","e","m","b","e","r">>>>

\* %B and %b of a month
FullName(m) == MonthNames[m]

AbbrName(m) == SubSeq(MonthNames[m], 1, 3)

\* The list with each day-first numeric format ahead of its month-first twin.
date_formats_DayFirst ==
    <<<<"%Y", "-", "%m", "-", "%d">>,
      <<"%d", "/", "%m", "/", "%Y">>,
      <<"%m", "/", "%d", "/", "%Y">>,
      <<"%d", "-", "%m", "-", "%Y">>,
      <<"%m", "-", "%d", "-", "%Y">>,
      <<"%Y", "/", "%m", "/", "%d">>,
      <<"%B", " ", "%d", ",", " ", "%Y">>,
      <<"%b", " ", "%d", ",", " ", "%Y">>,
      <<"%d", " ", "%B", " ", "%Y">>,
      <<"%d", " ", "%b", " ", "%Y">>>>

date_formats ==
    <<<<"%Y", "-", "%m", "-", "%d">>,
      <<"%m", "/", "%d", "/", "%Y">>,
      <<"%d", "/", "%m", "/", "%Y">>,
      <<"%m", "-", "%d", "-", "%Y">>,
      <<"%d", "-", "%m", "-", "%Y">>,
      <<"%Y", "/", "%m", "/", "%d">>,
      <<"%B", " ", "%d", ",", " ", "%Y">>,
      <<"%b", " ", "%d", ",", " ", "%Y">>,
      <<"%d", " ", "%B", " ", "%Y">>,
      <<"%d", " ", "%b", " ", "%Y">>>>

IsLeap(y) == (y % 4 = 0 /\ y % 100 # 0) \/ y % 400 = 0

DaysIn(y, m) ==
    IF m = 2 THEN (IF IsLeap(y) THEN 29 ELSE 28)
    ELSE IF m \in {4, 6, 9, 11} THEN 30 ELSE 31

IsCalendarDate(dt) ==
    /\ dt.y >= 1 /\ dt.m \in 1..12
    /\ dt.d >= 1 /\ dt.d <= DaysIn(dt.y, dt.m)

\* One directive or literal of a format, written for a date.
FormatItem(dt, item) ==
    CASE item = "%Y" -> Padded(dt.y, 4)
      [] item = "%m" -> Padded(dt.m, 2)
      [] item = "%d" -> Padded(dt.d, 2)
      [] item = "%B" -> FullName(dt.m)
      [] item = "%b" -> AbbrName(dt.m)
      [] OTHER -> <<item>>

RECURSIVE FormatFrom(_, _, _)
FormatFrom(dt, fmt, k) ==
    IF k > Len(fmt) THEN <<>>
    ELSE FormatItem(dt, fmt[k]) \o FormatFrom(dt, fmt, k + 1)

\* date.strftime(fmt)
strftime(dt, fmt) == FormatFrom(dt, fmt, 1)

IsDigit(c) == \E i \in DOMAIN Digits : Digits[i] = c

DigitVal(c) == (CHOOSE i \in DOMAIN Digits : Digits[i] = c) - 1

\* The n characters at position i are digits.
DigitsAt(txt, i, n) == i + n - 1 <= Len(txt) /\ \A j \in i..(i + n - 1) : IsDigit(txt[j])

RECURSIVE NumAt(_, _, _)
\* The value of the n digits at position i.
NumAt(txt, i, n) ==
    IF n = 0 THEN 0
    ELSE NumAt(txt, i, n - 1) * 10 + DigitVal(txt[i + n - 1])

\* The months whose name (full or abbreviated) is read at position i,
\* whatever the case.
MonthsAt(txt, i, full) ==
    {m \in 1..12 :
        LET nm == Lower(IF full THEN FullName(m) ELSE AbbrName(m))
        IN  OccursAt(Lower(txt), nm, i)}

RECURSIVE ParseFrom(_, _, _, _, _)
\* strptime from position i of the text and item k of the format: the date
\* read, or NaT when the text does not match.  A numeric directive takes two
\* digits when it can and one digit otherwise; the whole text must be used.
ParseFrom(txt, i, fmt, k, acc) ==
    IF k > Len(fmt) THEN (IF i = Len(txt) + 1 THEN acc ELSE NaT)
    ELSE IF fmt[k] = "%Y"
    THEN IF DigitsAt(txt, i, 4)
         THEN ParseFrom(txt, i + 4, fmt, k + 1, [acc EXCEPT !.y = NumAt(txt, i, 4)])
         ELSE NaT
    ELSE IF fmt[k] \in {"%m", "%d"}
    THEN LET top == IF fmt[k] = "%m" THEN 12 ELSE 31
             put(v) == IF fmt[k] = "%m" THEN [acc EXCEPT !.m = v]
                                        ELSE [acc EXCEPT !.d = v]
             two == IF DigitsAt(txt, i, 2) /\ NumAt(txt, i, 2) \in 1..top
                    THEN ParseFrom(txt, i + 2, fmt, k + 1, put(NumAt(txt, i, 2)))
                    ELSE NaT
             one == IF DigitsAt(txt, i, 1) /\ NumAt(txt, i, 1) \in 1..9
                    THEN ParseFrom(txt, i + 1, fmt, k + 1, put(NumAt(txt, i, 1)))
                    ELSE NaT
         IN  IF two # NaT THEN two ELSE one
    ELSE IF fmt[k] \in {"%B", "%b"}
    THEN LET ms == MonthsAt(txt, i, fmt[k] = "%B")
         IN  IF ms = {} THEN NaT
             ELSE LET m == Lowest(ms)
                      n == IF fmt[k] = "%B" THEN Len(FullName(m)) ELSE 3
                  IN  ParseFrom(txt, i + n, fmt, k + 1, [acc EXCEPT !.m = m])
    ELSE IF i <= Len(txt) /\ txt[i] = fmt[k]
    THEN ParseFrom(txt, i + 1, fmt, k + 1, acc)
    ELSE NaT

\* pd.to_datetime(date_str, format=fmt): the date, or NaT where it raises
strptime(txt, fmt) ==
    LET dt == ParseFrom(txt, 1, fmt, 1, [y |-> 0, m |-> 0, d |-> 0])
    IN  IF dt # NaT /\ IsCalendarDate(dt) THEN dt ELSE NaT

\* pd.to_datetime(date_str, errors='coerce') on the texts of the model: the
\* text of a timestamp at midnight is read back, any other text that no
\* explicit format matched is not a date.
flexible_parse(txt) ==
    LET midnight == <<" ","0","0",":","0","0",":","0","0">>
    IN  IF Len(txt) = 19 /\ EndsWith(txt, midnight)
        THEN strptime(SubSeq(txt, 1, 10), date_formats[1])
        ELSE NaT

RECURSIVE TryFormats(_, _)
\* for fmt in date_formats: the first format that parses decides
TryFormats(date_str, k) ==
    IF k > Len(date_formats) THEN flexible_parse(date_str)
    ELSE LET dt == strptime(date_str, date_formats[k])
         IN  IF dt # NaT THEN dt ELSE TryFormats(date_str, k + 1)

clean_and_parse_date(date_val) ==
    IF date_val.kind = "nan" THEN NaT
    ELSE TryFormats(Strip(Str(date_val)), 1)

(***************************************************************************)
(* Specification of clean_and_parse_date: a calendar date and one of the   *)
(* explicit formats are drawn, the date is written in the format and the   *)
(* text handed to clean_and_parse_date.                                    *)
(***************************************************************************)
DateYears == {2023, 2024}

CalendarDates ==
    {dt \in [y : DateYears, m : 1..12, d : 1..31] : IsCalendarDate(dt)}

InitDates ==
    /\ the_date \in CalendarDates
    /\ the_fmt \in DOMAIN date_formats
    /\ the_text = <<>>
    /\ parsed = NaT
    /\ pc = "start"
    /\ HeadersIdle /\ NameIdle /\ ExtractIdle /\ BatchIdle /\ SummaryIdle

FormatDate ==
    /\ pc = "start"
    /\ the_text' = strftime(the_date, date_formats[the_fmt])
    /\ pc' = "formatted"
    /\ UNCHANGED <<the_date, the_fmt, parsed>>
    /\ UNCHANGED <<headerVars, nameVars, extractVars, batchVars, summaryVars>>

NormalizeDate ==
    /\ pc = "formatted"
    /\ parsed' = clean_and_parse_date(TextCell(the_text))
    /\ pc' = "done"
    /\ UNCHANGED <<the_date, the_fmt, the_text>>
    /\ UNCHANGED <<headerVars, nameVars, extractVars, batchVars, summaryVars>>

NextDates == FormatDate \/ NormalizeDate

SpecDates == InitDates /\ [][NextDates]_vars

\* C7 as stated: writing a the_date in any explicit format and normalizing the
\* text gives the the_date back.
C7_RoundTripEveryFormat == pc = "done" => parsed = the_date

\* The formats that put the day first with a numeric month.
DayFirstNumeric == {k \in DOMAIN date_formats :
                       date_formats[k][1] = "%d" /\ date_formats[k][3] = "%m"}

\* C7 amended: the round trip gives the the_date back except for a day-first
\* numeric format with a day of 12 or less, where the month-first format
\* earlier in the list parses the text and day and month come back exchanged.
C7_RoundTripButDayFirst ==
    pc = "done" =>
        IF the_fmt \in DayFirstNumeric /\ the_date.d <= 12
        THEN parsed = [y |-> the_date.y, m |-> the_date.d, d |-> the_date.m]
        ELSE parsed = the_date

\* A day-first text with a day of 12 or less and another month was read.
C7_Witness ==
    /\ pc = "done"
    /\ the_fmt \in DayFirstNumeric
    /\ the_date.d <= 12 /\ the_date.d # the_date.m
    /\ parsed # NaT

(***************************************************************************)
(* extract_data_from_xlsx.  The file is what read_excel makes of its       *)
(* bytes: a grid, or an exception.  The function returns (data, error),    *)
(* one of them None: data is <<>> for None and <<records>> otherwise,      *)
(* error is <<>> for None and the message otherwise.                       *)
(***************************************************************************)
NaN == [ok |-> FALSE, v |-> 0]

\* The text is an integer literal.
IsIntText(txt) ==
    LET body == IF Len(txt) > 0 /\ txt[1] = "-" THEN Tail(txt) ELSE txt
    IN  Len(body) > 0 /\ DigitsAt(body, 1, Len(body))

IntOfText(txt) ==
    IF txt[1] = "-" THEN 0 - NumAt(txt, 2, Len(txt) - 1)
    ELSE NumAt(txt, 1, Len(txt))

\* pd.to_numeric(value, errors='coerce')
to_numeric(cell) ==
    CASE cell.kind = "num" -> [ok |-> TRUE, v |-> cell.num]
      [] cell.kind = "text" /\ IsIntText(cell.text) ->
            [ok |-> TRUE, v |-> IntOfText(cell.text)]
      [] OTHER -> NaN

\* clean_and_parse_date and to_numeric, tabulated once over the cells.
ParsedDate == [cell \in GridCells |-> clean_and_parse_date(cell)]

NumericHours == [cell \in GridCells |-> to_numeric(cell)]

EmptyFileMsg(name) == <<"E","m","p","t","y"," ","f","i","l","e",":"," ">> \o name

NoColumnsMsg(name) ==
    <<"C","o","u","l","d"," ","n","o","t"," ","d","e","t","e","c","t"," ","d","a","t","e","/","h","o","u","r","s"," ","c","o","l","u","m","n","s"," ","i","n",":"," ">> \o name

NoDataRowsMsg(name) ==
    <<"N","o"," ","d","a","t","a"," ","r","o","w","s"," ","f","o","u","n","d"," ","a","f","t","e","r"," ","h","e","a","d","e","r"," ","i","n",":"," ">> \o name

NoValidDataMsg(name) ==
    <<"N","o"," ","v","a","l","i","d"," ","d","a","t","e","/","h","o","u","r","s"," ","d","a","t","a"," ","f","o","u","n","d"," ","i","n",":"," ">> \o name

\* The text of the exception is left out of the message.
ProcessingErrorMsg(name) == <<"E","r","r","o","r"," ","p","r","o","c","e","s","s","i","n","g"," ">> \o name

\* df.empty taken as never true
IsEmptyFrame_Never(g) == FALSE

\* df.empty
IsEmptyFrame(g) == NRows(g) = 0 \/ NCols(g) = 0

\* Row r of the frame built from the two columns, dates and hours parsed.
data_row(g, r, date_col, hours_col) ==
    [index |-> r,
     Date |-> ParsedDate[ILoc(g, r, date_col)],
     Hours |-> NumericHours[ILoc(g, r, hours_col)]]

\* dropna(subset=['Date', 'Hours']) and data['Hours'] > 0, with zero kept
keep_row_NonNegative(row) == row.Date # NaT /\ row.Hours.ok /\ row.Hours.v >= 0

\* dropna(subset=['Date', 'Hours']) and data['Hours'] > 0
keep_row(row) == row.Date # NaT /\ row.Hours.ok /\ row.Hours.v > 0

\* The columns added to a kept row.
make_record(row, name) ==
    [index |-> row.index, Date |-> row.Date, Hours |-> row.Hours.v,
     Developer |-> name,
     YearMonth |-> <<row.Date.y, row.Date.m>>,
     Year |-> row.Date.y, Month |-> row.Date.m,
     MonthName |-> FullName(row.Date.m)]

extract_data_from_xlsx(bytes, name) ==
    IF ~bytes.readable
    THEN [data |-> <<>>, error |-> ProcessingErrorMsg(name)]
    ELSE LET g == bytes.grid
             h == detect_headers(g)
         IN  IF IsEmptyFrame(g)
             THEN [data |-> <<>>, error |-> EmptyFileMsg(name)]
             ELSE IF h.header_row = None \/ h.date_col = None \/ h.hours_col = None
             THEN [data |-> <<>>, error |-> NoColumnsMsg(name)]
             ELSE LET data_start_row == h.header_row + 1
                  IN  IF data_start_row >= NRows(g)
                      THEN [data |-> <<>>, error |-> NoDataRowsMsg(name)]
                      ELSE LET rows == [k \in 1..(NRows(g) - data_start_row) |->
                                           data_row(g, data_start_row + k - 1,
                                                    h.date_col, h.hours_col)]
                               kept == SelectSeq(rows, keep_row)
                           IN  IF kept = <<>>
                               THEN [data |-> <<>>, error |-> NoValidDataMsg(name)]
                               ELSE LET developer == extract_developer_name(name)
                                    IN  [data |-> <<[k \in 1..Len(kept) |->
                                                      make_record(kept[k], developer)]>>,
                                         error |-> <<>>]

(***************************************************************************)
(* Specification of extract_data_from_xlsx: a file and its name are drawn, *)
(* the function applied.                                                   *)
(***************************************************************************)
MaxData == 2

\* Names of eligible entries: an underscore name, a marker name, a name
\* that begins with the marker.
ExtractNames ==
    {<<"j","o","_","t",".","x","l","s","x">>, <<"a","l","*","b",".","x","l","s">>, <<"*","b",".","x","l","s","x">>}

DateHeader == TextCell(<<"D","a","t","e">>)

HoursHeader == TextCell(<<"H","o","u","r","s">>)

\* A header row and the data rows below it, the date column first or second.
Tables(dateFirst) ==
    {<<IF dateFirst THEN <<DateHeader, HoursHeader>> ELSE <<HoursHeader, DateHeader>>>>
        \o [k \in 1..n |-> IF dateFirst THEN <<ds[k], hs[k]>> ELSE <<hs[k], ds[k]>>] :
        n \in 0..MaxData, ds \in [1..MaxData -> DateCells],
        hs \in [1..MaxData -> HoursCells]}

\* n empty rows
Blanks(n) == [k \in 1..n |-> <<NaNCell, NaNCell>>]

\* Grids: a table, a table below an empty row, rows without a header, the
\* grid of an empty sheet, and tables whose header is the last row that
\* detect_headers looks at and the first that it does not.
ExtractGrids ==
    LET tables == Tables(TRUE) \cup Tables(FALSE)
    IN  tables \cup {Blanks(1) \o t : t \in tables}
        \cup {Blanks(1) \o Tail(t) : t \in tables} \cup {<<>>}
        \cup {Blanks(HeaderWindow - 1) \o t : t \in Tables(TRUE)}
        \cup {Blanks(HeaderWindow) \o t : t \in Tables(TRUE)}

Files ==
    {[readable |-> TRUE, grid |-> g] : g \in ExtractGrids}
        \cup {[readable |-> FALSE, grid |-> <<>>]}

InitExtract ==
    /\ file_bytes \in Files
    /\ file_name \in ExtractNames
    /\ data = <<>>
    /\ error = <<>>
    /\ pc = "start"
    /\ HeadersIdle /\ NameIdle /\ DateIdle /\ BatchIdle /\ SummaryIdle

ExtractData ==
    /\ pc = "start"
    /\ LET out == extract_data_from_xlsx(file_bytes, file_name)
       IN  data' = out.data /\ error' = out.error
    /\ pc' = "done"
    /\ UNCHANGED <<file_bytes, file_name>>
    /\ UNCHANGED <<headerVars, nameVars, dateVars, batchVars, summaryVars>>

NextExtract == ExtractData

SpecExtract == InitExtract /\ [][NextExtract]_vars

\* C5: the records of a file all carry one developer name, and that name is
\* not empty.
C5_DeveloperNonEmpty ==
    (pc = "done" /\ data # <<>>) =>
        /\ \A j, k \in DOMAIN data[1] : data[1][j].Developer = data[1][k].Developer
        /\ \A k \in DOMAIN data[1] : data[1][k].Developer # <<>>

\* The header of a readable file as the claim of detect_headers gives it,
\* and the rows below it that are valid: a date that normalizes to a
\* calendar date and hours that are a number above zero.
HeaderLocated(f) == f.readable /\ QualifyingRows(f.grid) # {}

StatedHeaderRow(f) == Lowest(QualifyingRows(f.grid))

RowsBelow(f) == (StatedHeaderRow(f) + 1)..(NRows(f.grid) - 1)

StatedDate(f, r) ==
    ParsedDate[ILoc(f.grid, r, Highest(DateColsOf(f.grid, StatedHeaderRow(f))))]

StatedHours(f, r) ==
    NumericHours[ILoc(f.grid, r, Highest(HoursColsOf(f.grid, StatedHeaderRow(f))))]

ValidRows(f) ==
    {r \in RowsBelow(f) :
        /\ IsCalendarDate(StatedDate(f, r))
        /\ StatedHours(f, r).ok /\ StatedHours(f, r).v > 0}

\* C6: with a header located, the records are exactly the valid rows below
\* it, in row order, each with the date and the hours of its row; no record
\* has hours <= 0 or no date; rows are dropped without rejecting the file
\* while a valid row remains; with rows below the header and none of them
\* valid the file is rejected for having no valid data.
C6_RecordsAreTheValidRows ==
    (pc = "done" /\ HeaderLocated(file_bytes)) =>
        IF ValidRows(file_bytes) # {}
        THEN /\ error = <<>>
             /\ data # <<>>
             /\ {data[1][k].index : k \in DOMAIN data[1]} = ValidRows(file_bytes)
             /\ Len(data[1]) = Cardinality(ValidRows(file_bytes))
             /\ \A j, k \in DOMAIN data[1] :
                    j < k => data[1][j].index < data[1][k].index
             /\ \A k \in DOMAIN data[1] :
                    /\ data[1][k].Date = StatedDate(file_bytes, data[1][k].index)
                    /\ data[1][k].Hours = StatedHours(file_bytes, data[1][k].index).v
                    /\ data[1][k].Hours > 0
                    /\ IsCalendarDate(data[1][k].Date)
        ELSE /\ data = <<>>
             /\ RowsBelow(file_bytes) # {} => error = NoValidDataMsg(file_name)

\* A file from which a row with hours of zero or less was dropped and a
\* later row kept.
C6_Witness ==
    /\ pc = "done" /\ HeaderLocated(file_bytes)
    /\ data # <<>>
    /\ \E r \in RowsBelow(file_bytes) :
          /\ IsCalendarDate(StatedDate(file_bytes, r))
          /\ StatedHours(file_bytes, r).ok /\ StatedHours(file_bytes, r).v <= 0
          /\ \E k \in DOMAIN data[1] : data[1][k].index > r

\* The grid of a sheet without a cell.
EmptyGrid(f) == Len(f.grid) = 0 \/ \A r \in DOMAIN f.grid : Len(f.grid[r]) = 0

\* The reason for which a file is rejected, <<>> for a file that is not:
\* the first in the stated precedence that applies.
StatedRejection(f, name) ==
    IF ~f.readable THEN ProcessingErrorMsg(name)
    ELSE IF EmptyGrid(f) THEN EmptyFileMsg(name)
    ELSE IF ~HeaderLocated(f) THEN NoColumnsMsg(name)
    ELSE IF StatedHeaderRow(f) = NRows(f.grid) - 1 THEN NoDataRowsMsg(name)
    ELSE IF ValidRows(f) = {} THEN NoValidDataMsg(name)
    ELSE <<>>

\* C12: a file has exactly one outcome, records or a reason; the reason is
\* the first that applies of: empty grid, no header in the first 10 rows,
\* header in the last row, every data row dropped; records are returned
\* iff the grid is not empty, a header is located and a row below it is
\* valid; a file that cannot be read is rejected with a reason of its own.
C12_OneOutcomeInPrecedence ==
    pc = "done" =>
        /\ (data = <<>>) # (error = <<>>)
        /\ error = StatedRejection(file_bytes, file_name)
        /\ data # <<>> <=>
              /\ file_bytes.readable /\ ~EmptyGrid(file_bytes)
              /\ HeaderLocated(file_bytes) /\ ValidRows(file_bytes) # {}
        /\ ~file_bytes.readable => data = <<>> /\ error # <<>>

\* A file with a header and valid rows below it, the header just outside
\* the rows that are looked at: rejected for its columns.
C12_Witness ==
    /\ pc = "done" /\ file_bytes.readable
    /\ NRows(file_bytes.grid) = 13
    /\ \A r \in 0..9 : \A c \in 0..1 : ILoc(file_bytes.grid, r, c) = NaNCell
    /\ ILoc(file_bytes.grid, 10, 0) = DateHeader
    /\ ILoc(file_bytes.grid, 10, 1) = HoursHeader
    /\ IsCalendarDate(ParsedDate[ILoc(file_bytes.grid, 11, 0)])
    /\ NumericHours[ILoc(file_bytes.grid, 11, 1)].ok
    /\ NumericHours[ILoc(file_bytes.grid, 11, 1)].v > 0
    /\ data = <<>>
    /\ error = NoColumnsMsg(file_name)

(***************************************************************************)
(* process_zip_file.  An entry of the archive has a name, the file read    *)
(* from it, and whether reading it succeeds.                               *)
(***************************************************************************)
NoValidFilesMsg == <<"N","o"," ","v","a","l","i","d"," ","X","L","S","X"," ","f","i","l","e","s"," ","f","o","u","n","d"," ","i","n"," ","Z","I","P">>

ZipErrorMsg == <<"E","r","r","o","r"," ","r","e","a","d","i","n","g"," ","Z","I","P"," ","f","i","l","e">>

\* The text of the exception is left out of the message.
CouldNotReadMsg(name) == <<"C","o","u","l","d"," ","n","o","t"," ","r","e","a","d"," ">> \o name

\* zip_file.namelist()
namelist(zf) == [k \in 1..Len(zf.entries) |-> zf.entries[k].name]

\* zip_file.open(name): the last entry of that name
entry_named(zf, name) ==
    zf.entries[Highest({k \in 1..Len(zf.entries) : zf.entries[k].name = name})]

\* [f for f in all_files if is_valid_excel_file(f)]
eligible_files(all_files) == SelectSeq(all_files, is_valid_excel_file)

\* f.endswith(('.xlsx', '.xls')) and not is_valid_excel_file(f)
is_skipped(f) ==
    (EndsWith(f, XlsxExt) \/ EndsWith(f, XlsExt)) /\ ~is_valid_excel_file(f)

\* The three lists after extract_data_from_xlsx returned out for an entry.
add_outcome(acc, name, out) ==
    IF out.data # <<>>
    THEN [acc EXCEPT !.all_data = Append(@, out.data[1]),
                     !.processed_files = Append(@, name)]
    ELSE [acc EXCEPT !.error_messages = Append(@, out.error)]

\* One pass of the loop where a read failure leaves no error message.
after_entry_SilentFailure(zf, name, acc) ==
    IF ~entry_named(zf, name).opens
    THEN acc
    ELSE add_outcome(acc, name,
                     extract_data_from_xlsx(entry_named(zf, name).bytes, name))

\* One pass of the loop: the three lists after the entry was handled.
after_entry(zf, name, acc) ==
    IF ~entry_named(zf, name).opens
    THEN [acc EXCEPT !.error_messages = Append(@, CouldNotReadMsg(name))]
    ELSE add_outcome(acc, name,
                     extract_data_from_xlsx(entry_named(zf, name).bytes, name))

RECURSIVE Flatten(_)
Flatten(frames) ==
    IF frames = <<>> THEN <<>> ELSE Head(frames) \o Flatten(Tail(frames))

\* pd.concat(all_data, ignore_index=True)
concat(frames) ==
    LET rows == Flatten(frames)
    IN  [k \in 1..Len(rows) |-> [rows[k] EXCEPT !.index = k - 1]]

(***************************************************************************)
(* Specification of process_zip_file: an archive is drawn; it is opened,   *)
(* its eligible entries are handled one by one, the report is returned.    *)
(***************************************************************************)
MaxEntries == 3

\* Two eligible names, a sidecar with the extension in lower and in upper
\* case, and a file that is no spreadsheet.
EligibleNames == {<<"j","o","_","t",".","x","l","s","x">>, <<"a","l","*","b",".","x","l","s">>}

OtherNames ==
    {<<"_","_","M","A","C","O","S","X","/",".","_","j","o","_","t",".","x","l","s","x">>, <<"_","_","M","A","C","O","S","X","/",".","_","a",".","X","L","S","X">>, <<"n",".","t","x","t">>}

JanRow == <<TextCell(<<"2","0","2","4","-","0","1","-","0","5">>), NumCell(8)>>

FebRow == <<StampCell([y |-> 2024, m |-> 2, d |-> 13]), TextCell(<<"4">>)>>

ZeroRow == <<TextCell(<<"2","0","2","4","-","0","1","-","0","5">>), NumCell(0)>>

\* A file with one valid row, a file with a dropped row and two valid rows
\* of two months, and a file without a header.
EntryFiles ==
    {[readable |-> TRUE, grid |-> <<<<DateHeader, HoursHeader>>, JanRow>>],
     [readable |-> TRUE, grid |-> <<<<DateHeader, HoursHeader>>, ZeroRow, FebRow, JanRow>>],
     [readable |-> TRUE, grid |-> <<<<NaNCell, NaNCell>>, JanRow>>]}

Entries ==
    {[name |-> n, bytes |-> f, opens |-> TRUE] : n \in EligibleNames, f \in EntryFiles}
        \cup {[name |-> n, bytes |-> [readable |-> FALSE, grid |-> <<>>], opens |-> FALSE] :
                 n \in EligibleNames \cup OtherNames}

Archives ==
    {[opens |-> TRUE, entries |-> es] :
        es \in UNION {[1..n -> Entries] : n \in 0..MaxEntries}}
        \cup {[opens |-> FALSE, entries |-> <<>>]}

InitBatch ==
    /\ zip_file \in Archives
    /\ xlsx_files = <<>>
    /\ done_i = 0
    /\ all_data = <<>>
    /\ error_messages = <<>>
    /\ processed_files = <<>>
    /\ skipped_files = <<>>
    /\ combined_df = <<>>
    /\ summary = <<>>
    /\ PivotIdle
    /\ pc = "start"
    /\ HeadersIdle /\ NameIdle /\ DateIdle /\ ExtractIdle

\* zipfile.ZipFile(uploaded_file) raises: the outer except returns.
OpenFails ==
    /\ pc = "start"
    /\ ~zip_file.opens
    /\ error_messages' = <<ZipErrorMsg>>
    /\ pc' = "done"
    /\ UNCHANGED <<zip_file, xlsx_files, done_i, all_data, processed_files, skipped_files>>
    /\ UNCHANGED <<headerVars, nameVars, dateVars, extractVars, summaryVars>>

\* The archive opens: the entries are filtered; with no eligible entry the
\* function returns at once.
OpenArchive ==
    /\ pc = "start"
    /\ zip_file.opens
    /\ xlsx_files' = eligible_files(namelist(zip_file))
    /\ skipped_files' = SelectSeq(namelist(zip_file), is_skipped)
    /\ IF xlsx_files' = <<>>
       THEN error_messages' = <<NoValidFilesMsg>> /\ pc' = "done"
       ELSE error_messages' = error_messages /\ pc' = "loop"
    /\ UNCHANGED <<zip_file, done_i, all_data, processed_files>>
    /\ UNCHANGED <<headerVars, nameVars, dateVars, extractVars, summaryVars>>

\* One pass of the loop over xlsx_files.
ProcessEntry ==
    /\ pc = "loop"
    /\ done_i < Len(xlsx_files)
    /\ \E acc \in {after_entry(zip_file, xlsx_files[done_i + 1],
                                [all_data |-> all_data,
                                 error_messages |-> error_messages,
                                 processed_files |-> processed_files])} :
           /\ all_data' = acc.all_data
           /\ error_messages' = acc.error_messages
           /\ processed_files' = acc.processed_files
    /\ done_i' = done_i + 1
    /\ UNCHANGED <<pc, zip_file, xlsx_files, skipped_files>>
    /\ UNCHANGED <<headerVars, nameVars, dateVars, extractVars, summaryVars>>

\* The loop is over: the frames are concatenated and the report returned.
ReturnReport ==
    /\ pc = "loop"
    /\ done_i = Len(xlsx_files)
    /\ combined_df' = concat(all_data)
    /\ pc' = "done"
    /\ UNCHANGED <<summary, pivotVars, batchVars>>
    /\ UNCHANGED <<headerVars, nameVars, dateVars, extractVars>>

NextBatch == OpenFails \/ OpenArchive \/ ProcessEntry \/ ReturnReport

SpecBatch == InitBatch /\ [][NextBatch]_vars

\* The eligible entries in archive order, and whether the k-th of them
\* yields records.
EligibleEntries == SelectSeq(namelist(zip_file), is_valid_excel_file)

Yields(k) ==
    LET entry == entry_named(zip_file, EligibleEntries[k])
    IN  entry.opens /\ extract_data_from_xlsx(entry.bytes, entry.name).data # <<>>

YieldingUpTo(k) == Cardinality({j \in 1..k : Yields(j)})

\* Each eligible entry, in archive order, is in processed_files with its
\* records (at least one) or has one message in error_messages.
EachEntryInOnePlace ==
    \A k \in DOMAIN EligibleEntries :
        IF Yields(k)
        THEN /\ YieldingUpTo(k) <= Len(processed_files)
             /\ processed_files[YieldingUpTo(k)] = EligibleEntries[k]
             /\ Len(all_data[YieldingUpTo(k)]) >= 1
        ELSE /\ k - YieldingUpTo(k) <= Len(error_messages)
             /\ EndsWith(error_messages[k - YieldingUpTo(k)], EligibleEntries[k])

RECURSIVE SumLen(_)
SumLen(frames) == IF frames = <<>> THEN 0 ELSE Len(Head(frames)) + SumLen(Tail(frames))

\* C8 as stated: for an archive that opens, every eligible entry ends in
\* processed_files (its records merged) or in one message of errors, so
\* |processedFiles| + |errors| is the number of eligible entries.
C8_EveryEntryAccounted ==
    (pc = "done" /\ zip_file.opens) =>
        /\ EachEntryInOnePlace
        /\ Len(all_data) = Len(processed_files)
        /\ Len(combined_df) = SumLen(all_data)
        /\ Len(processed_files) + Len(error_messages) = Len(EligibleEntries)

\* C8 amended: the same, for an archive with at least one eligible entry;
\* with none, processed_files is empty and errors holds the single message
\* "No valid XLSX files found in ZIP".
C8_EveryEntryAccountedOrNoFiles ==
    (pc = "done" /\ zip_file.opens) =>
        /\ EachEntryInOnePlace
        /\ Len(all_data) = Len(processed_files)
        /\ Len(combined_df) = SumLen(all_data)
        /\ IF EligibleEntries # <<>>
           THEN Len(processed_files) + Len(error_messages) = Len(EligibleEntries)
           ELSE processed_files = <<>> /\ error_messages = <<NoValidFilesMsg>>

\* An entry that cannot be read is followed by an entry that is processed.
C8_Witness ==
    /\ pc = "done" /\ zip_file.opens
    /\ \E j, l \in DOMAIN EligibleEntries :
          /\ j < l /\ Yields(l)
          /\ ~entry_named(zip_file, EligibleEntries[j]).opens

Range(q) == {q[k] : k \in DOMAIN q}

\* An entry name ends in a spreadsheet extension, whatever the case.
HasSpreadsheetExtension(f) ==
    EndsWith(Lower(f), XlsxExt) \/ EndsWith(Lower(f), XlsExt)

StatedSkipped(f) == HasSpreadsheetExtension(f) /\ ~is_valid_excel_file(f)

\* C9: for an archive that opens, skipped_files lists exactly the entries
\* that is_valid_excel_file rejects and that end in a spreadsheet extension
\* under its case-insensitive test; skipped and processed files are disjoint.
C9_SkippedAreRejectedSpreadsheets ==
    (pc = "done" /\ zip_file.opens) =>
        /\ skipped_files = SelectSeq(namelist(zip_file), StatedSkipped)
        /\ Range(skipped_files) \cap Range(processed_files) = {}

(***************************************************************************)
(* create_monthly_summary                                                  *)
(***************************************************************************)
\* The characters of the model in the order of their code points.
CharOrder ==
    <<" ", "*", ",", "-", ".", "/">> \o Digits \o <<":">> \o UpperLetters
        \o <<"_">> \o LowerLetters

Ord(c) == CHOOSE k \in DOMAIN CharOrder : CharOrder[k] = c

\* a < b for two texts
TextLess(a, b) ==
    \E k \in 1..(Len(a) + 1) :
        /\ k <= Len(b)
        /\ \A j \in 1..(k - 1) : j <= Len(a) /\ a[j] = b[j]
        /\ (k > Len(a) \/ Ord(a[k]) < Ord(b[k]))

\* The key of groupby(['Developer', 'Year', 'Month', 'MonthName', 'YearMonth'])
group_key(rec) ==
    [Developer |-> rec.Developer, Year |-> rec.Year, Month |-> rec.Month,
     MonthName |-> rec.MonthName, YearMonth |-> rec.YearMonth]

\* The order in which groupby leaves the groups: by the key columns in turn.
\* MonthName and YearMonth follow from Year and Month.
GroupKeyLess(a, b) ==
    \/ TextLess(a.Developer, b.Developer)
    \/ a.Developer = b.Developer /\ a.Year < b.Year
    \/ a.Developer = b.Developer /\ a.Year = b.Year /\ a.Month < b.Month

RECURSIVE InOrder(_)
\* The keys of a set as a sequence, the least under GroupKeyLess first.
InOrder(S) ==
    IF S = {} THEN <<>>
    ELSE LET least == CHOOSE x \in S : \A y \in S \ {x} : GroupKeyLess(x, y)
         IN  <<least>> \o InOrder(S \ {least})

RECURSIVE SumHours(_)
\* 'Hours': 'sum'
SumHours(rows) ==
    IF rows = <<>> THEN 0 ELSE Head(rows).Hours + SumHours(Tail(rows))

\* 'Date': 'count' taken as the number of distinct dates
count_dates_Distinct(rows) == Cardinality({rows[k].Date : k \in DOMAIN rows})

\* 'Date': 'count'
count_dates(rows) == Len(rows)

\* YearMonth.dt.strftime('%Y-%m')
YearMonthStr(ym) == Padded(ym[1], 4) \o <<"-">> \o Padded(ym[2], 2)

\* One row of the summary: the key, the two aggregates, the two labels.
bucket(frame, key) ==
    LET rows == SelectSeq(frame, LAMBDA rec : group_key(rec) = key)
    IN  [Developer |-> key.Developer, Year |-> key.Year, Month |-> key.Month,
         MonthName |-> key.MonthName, YearMonth |-> key.YearMonth,
         Hours |-> SumHours(rows), WorkingDays |-> count_dates(rows),
         YearMonthStr |-> YearMonthStr(key.YearMonth),
         MonthYear |-> key.MonthName \o <<" ">> \o IntStr(key.Year)]

\* df.groupby([...]).agg({...}).reset_index(), renamed and labelled
grouped(frame) ==
    LET keys == InOrder({group_key(frame[k]) : k \in DOMAIN frame})
    IN  [k \in 1..Len(keys) |-> bucket(frame, keys[k])]

\* The order of sort_values(['Year', 'Month', 'Developer'])
SortKeyLess(a, b) ==
    \/ a.Year < b.Year
    \/ a.Year = b.Year /\ a.Month < b.Month
    \/ a.Year = b.Year /\ a.Month = b.Month /\ TextLess(a.Developer, b.Developer)

RECURSIVE InsertSorted(_, _)
\* row put into a sorted sequence behind the rows that are not above it
InsertSorted(sorted, row) ==
    IF sorted = <<>> THEN <<row>>
    ELSE IF SortKeyLess(row, Head(sorted))
         THEN <<row>> \o sorted
         ELSE <<Head(sorted)>> \o InsertSorted(Tail(sorted), row)

\* the rows left in the order in which groupby made them
sort_values_None(rows) == rows

RECURSIVE sort_values(_)
\* a stable sort by (Year, Month, Developer)
sort_values(rows) ==
    IF rows = <<>> THEN <<>>
    ELSE InsertSorted(sort_values(SubSeq(rows, 1, Len(rows) - 1)), rows[Len(rows)])

create_monthly_summary(frame) == sort_values(grouped(frame))

(***************************************************************************)
(* Specification of create_monthly_summary: a record set is drawn, the     *)
(* function applied.                                                       *)
(***************************************************************************)
MaxRecords == 3

SummaryDevelopers == {<<"A","l">>, <<"J","o">>}

SummaryDates ==
    {[y |-> 2023, m |-> 12, d |-> 31], [y |-> 2024, m |-> 1, d |-> 5],
     [y |-> 2024, m |-> 1, d |-> 6], [y |-> 2024, m |-> 2, d |-> 13]}

SummaryHours == {4, 8}

\* Records as extract_data_from_xlsx makes them.
SummaryRecords ==
    {make_record([index |-> 0, Date |-> dt, Hours |-> [ok |-> TRUE, v |-> h]], dev) :
        dt \in SummaryDates, h \in SummaryHours, dev \in SummaryDevelopers}

\* Record sets as pd.concat(..., ignore_index=True) leaves them.
RecordSets ==
    {concat(<<rows>>) : rows \in UNION {[1..n -> SummaryRecords] : n \in 0..MaxRecords}}

InitSummary ==
    /\ combined_df \in RecordSets
    /\ summary = <<>>
    /\ PivotIdle
    /\ pc = "start"
    /\ HeadersIdle /\ NameIdle /\ DateIdle /\ ExtractIdle /\ BatchIdle

\* main calls create_monthly_summary when the record set is not empty.
CreateSummary ==
    /\ pc = "start"
    /\ combined_df # <<>>
    /\ summary' = create_monthly_summary(combined_df)
    /\ pc' = "done"
    /\ UNCHANGED <<combined_df, pivotVars>>
    /\ UNCHANGED <<headerVars, nameVars, dateVars, extractVars, batchVars>>

NextSummary == CreateSummary

SpecSummary == InitSummary /\ [][NextSummary]_vars

\* The positions of the records of a developer in a month.
RecordsOf(dev, y, m) ==
    {k \in DOMAIN combined_df :
        /\ combined_df[k].Developer = dev
        /\ combined_df[k].Year = y /\ combined_df[k].Month = m}

RECURSIVE HoursOver(_)
\* The sum of the hours of the records at a set of positions.
HoursOver(K) ==
    IF K = {} THEN 0
    ELSE LET k == CHOOSE x \in K : TRUE
         IN  combined_df[k].Hours + HoursOver(K \ {k})

\* C10: the summary has exactly one bucket for each (developer, year, month)
\* of the records and none for any other key; the hours of a bucket are the
\* sum of the hours of the records of its key, its working days their
\* number, records of one date counted one by one.
C10_OneBucketPerKey ==
    pc = "done" =>
        /\ \A r \in DOMAIN combined_df :
              Cardinality({k \in DOMAIN summary :
                  /\ summary[k].Developer = combined_df[r].Developer
                  /\ summary[k].Year = combined_df[r].Year
                  /\ summary[k].Month = combined_df[r].Month}) = 1
        /\ \A k \in DOMAIN summary :
              LET K == RecordsOf(summary[k].Developer, summary[k].Year, summary[k].Month)
              IN  /\ K # {}
                  /\ summary[k].Hours = HoursOver(K)
                  /\ summary[k].WorkingDays = Cardinality(K)

\* Two records of one developer on one date and a record of another
\* developer in the same month: two buckets.
C10_Witness ==
    /\ pc = "done"
    /\ \E a, b, c \in DOMAIN combined_df :
          /\ a # b /\ combined_df[a].Date = combined_df[b].Date
          /\ combined_df[a].Developer = combined_df[b].Developer
          /\ combined_df[c].Developer # combined_df[a].Developer
          /\ combined_df[c].YearMonth = combined_df[a].YearMonth
    /\ Len(summary) = 2

\* The record set in every order of its records.
Reorderings(frame) ==
    {[k \in DOMAIN frame |-> frame[p[k]]] :
        p \in {q \in [DOMAIN frame -> DOMAIN frame] :
                  \A a, b \in DOMAIN frame : q[a] = q[b] => a = b}}

\* C11: every reordering of the record set gives the same summary, bucket
\* by bucket in the same positions, and the buckets of the summary ascend
\* by (year, month, developer).
C11_OrderIndependentAndSorted ==
    pc = "done" =>
        /\ \A frame \in Reorderings(combined_df) :
              create_monthly_summary(frame) = summary
        /\ \A a, b \in DOMAIN summary :
              a < b =>
                  \/ summary[a].Year < summary[b].Year
                  \/ /\ summary[a].Year = summary[b].Year
                     /\ summary[a].Month < summary[b].Month
                  \/ /\ summary[a].Year = summary[b].Year
                     /\ summary[a].Month = summary[b].Month
                     /\ TextLess(summary[a].Developer, summary[b].Developer)

\* Three records of three keys, given latest first, whose order by
\* developer is not their order by month.
C11_Witness ==
    /\ pc = "done"
    /\ Len(combined_df) = 3 /\ Len(summary) = 3
    /\ combined_df[1].YearMonth = <<2024, 2>>
    /\ combined_df[1].Developer = <<"A","l">>
    /\ combined_df[2].YearMonth = <<2024, 1>>
    /\ combined_df[2].Developer = <<"J","o">>
    /\ combined_df[3].YearMonth = <<2023, 12>>
    /\ combined_df[3].Developer = <<"J","o">>
    /\ summary[1].Developer = <<"J","o">> /\ summary[3].Developer = <<"A","l">>

(***************************************************************************)
(* main: the filters of the sidebar and the pivot view of the first tab.   *)
(***************************************************************************)
\* a <= b for two dates
DateLeq(a, b) ==
    \/ a.y < b.y
    \/ a.y = b.y /\ a.m < b.m
    \/ a.y = b.y /\ a.m = b.m /\ a.d <= b.d

\* df['Developer'].unique()
developers(frame) == {frame[k].Developer : k \in DOMAIN frame}

\* df['Date'].min()
min_date(frame) ==
    CHOOSE dt \in {frame[k].Date : k \in DOMAIN frame} :
        \A k \in DOMAIN frame : DateLeq(dt, frame[k].Date)

\* df['Date'].max()
max_date(frame) ==
    CHOOSE dt \in {frame[k].Date : k \in DOMAIN frame} :
        \A k \in DOMAIN frame : DateLeq(frame[k].Date, dt)

\* filtered_df of either branch: by developer, and by date with two dates
filter_df(frame, selected, range) ==
    IF Len(range) = 2
    THEN SelectSeq(frame, LAMBDA rec :
             /\ rec.Developer \in selected
             /\ DateLeq(range[1], rec.Date) /\ DateLeq(rec.Date, range[2]))
    ELSE SelectSeq(frame, LAMBDA rec : rec.Developer \in selected)

\* filtered_summary of either branch: made again from the filtered records,
\* or the rows of monthly_summary of the selected developers
filter_summary(frame, monthly_summary, selected, range) ==
    IF Len(range) = 2
    THEN create_monthly_summary(filter_df(frame, selected, range))
    ELSE SelectSeq(monthly_summary, LAMBDA row : row.Developer \in selected)

RECURSIVE SortedTexts(_)
\* The labels of an axis of the pivot table: its keys in ascending order.
SortedTexts(S) ==
    IF S = {} THEN <<>>
    ELSE LET least == CHOOSE x \in S : \A y \in S \ {x} : TextLess(x, y)
         IN  <<least>> \o SortedTexts(S \ {least})

\* aggfunc of pivot_table, 'mean' when none is given; the rows of one
\* developer and one label are a single bucket, whose hours it returns.
mean(rows) == SumHours(rows) \div Len(rows)

fill_value == 0

\* pivot_table(index='Developer', columns='MonthYear', values='Hours',
\*             fill_value=0)
pivot_table(rows) ==
    LET idx == SortedTexts({rows[k].Developer : k \in DOMAIN rows})
        cols == SortedTexts({rows[k].MonthYear : k \in DOMAIN rows})
    IN  [index |-> idx,
         columns |-> cols,
         cells |-> [i \in DOMAIN idx |-> [j \in DOMAIN cols |->
             LET hit == SelectSeq(rows, LAMBDA row :
                            row.Developer = idx[i] /\ row.MonthYear = cols[j])
             IN  IF hit = <<>> THEN fill_value ELSE mean(hit)]]]

RECURSIVE SumColumn(_, _, _)
\* The sum of column j over the first n rows.
SumColumn(cells, j, n) ==
    IF n = 0 THEN 0 ELSE cells[n][j] + SumColumn(cells, j, n - 1)

\* The totals taken as the largest cell of each column.
column_sums_Max(p) ==
    [j \in DOMAIN p.columns |->
        CHOOSE v \in {p.cells[i][j] : i \in DOMAIN p.index} :
            \A i \in DOMAIN p.index : p.cells[i][j] <= v]

\* pivot_summary.sum()
column_sums(p) ==
    [j \in DOMAIN p.columns |-> SumColumn(p.cells, j, Len(p.index))]

TotalLabel == <<"T","O","T","A","L"," ","H","O","U","R","S">>

\* p.loc[label] = row: the row of that label is replaced, or the row is
\* appended when no row has the label
set_row(p, label, row) ==
    IF \E i \in DOMAIN p.index : p.index[i] = label
    THEN [p EXCEPT !.cells = [i \in DOMAIN p.index |->
                                 IF p.index[i] = label THEN row ELSE p.cells[i]]]
    ELSE [p EXCEPT !.index = Append(p.index, label),
                   !.cells = Append(p.cells, row)]

\* The pivot table and its row of totals; the tab is drawn for a filtered
\* record set that is not empty.
show_pivot(rows) ==
    IF rows = <<>> THEN NoPivot
    ELSE set_row(pivot_table(rows), TotalLabel, column_sums(pivot_table(rows)))

(***************************************************************************)
(* Specification of the pivot view: a record set is drawn and summarized,  *)
(* the filters are set and the view is made.                               *)
(***************************************************************************)
\* Two dates of one month and one of the next, whose label sorts before.
PivotDates ==
    {[y |-> 2024, m |-> 1, d |-> 5], [y |-> 2024, m |-> 1, d |-> 6],
     [y |-> 2024, m |-> 2, d |-> 13]}

PivotRecords ==
    {make_record([index |-> 0, Date |-> dt, Hours |-> [ok |-> TRUE, v |-> h]], dev) :
        dt \in PivotDates, h \in SummaryHours, dev \in SummaryDevelopers}

PivotRecordSets ==
    {concat(<<rows>>) : rows \in UNION {[1..n -> PivotRecords] : n \in 0..MaxRecords}}

\* What the date input can return between its limits: a range, or a single
\* date while a range is being picked.
DateRanges(frame) ==
    LET present == {frame[k].Date : k \in DOMAIN frame}
    IN  {range \in {<<a, b>> : a \in present, b \in present} :
            DateLeq(range[1], range[2])}
        \cup {<<min_date(frame)>>}

InitPivot ==
    /\ combined_df \in PivotRecordSets
    /\ summary = <<>>
    /\ PivotIdle
    /\ pc = "start"
    /\ HeadersIdle /\ NameIdle /\ DateIdle /\ ExtractIdle /\ BatchIdle

\* The filters are read and the first tab is drawn.
ShowPivot ==
    /\ pc = "done"
    /\ \E selected \in SUBSET developers(combined_df),
          range \in DateRanges(combined_df) :
           /\ selected_developers' = selected
           /\ date_range' = range
           /\ filtered_df' = filter_df(combined_df, selected, range)
           /\ filtered_summary' = filter_summary(combined_df, summary, selected, range)
           /\ pivot_with_totals' =
                 IF filter_df(combined_df, selected, range) = <<>>
                 THEN NoPivot
                 ELSE show_pivot(filter_summary(combined_df, summary, selected, range))
    /\ pc' = "shown"
    /\ UNCHANGED <<combined_df, summary>>
    /\ UNCHANGED <<headerVars, nameVars, dateVars, extractVars, batchVars>>

NextPivot == CreateSummary \/ ShowPivot

SpecPivot == InitPivot /\ [][NextPivot]_vars

\* The "Month Year" label of a month.
MonthLabel(ym) == FullName(ym[2]) \o <<" ">> \o IntStr(ym[1])

\* The positions of the filtered records of a month given by its label.
FilteredIn(label) ==
    {k \in DOMAIN filtered_df : MonthLabel(filtered_df[k].YearMonth) = label}

RECURSIVE FilteredHours(_)
\* The sum of the hours of the filtered records at a set of positions.
FilteredHours(K) ==
    IF K = {} THEN 0
    ELSE LET k == CHOOSE x \in K : TRUE
         IN  filtered_df[k].Hours + FilteredHours(K \ {k})

RECURSIVE SumNumbers(_)
SumNumbers(row) == IF row = <<>> THEN 0 ELSE Head(row) + SumNumbers(Tail(row))

RECURSIVE SumWorkingDays(_)
SumWorkingDays(rows) ==
    IF rows = <<>> THEN 0 ELSE Head(rows).WorkingDays + SumWorkingDays(Tail(rows))

\* The buckets of a developer under a column label.
BucketsAt(dev, label) ==
    {k \in DOMAIN filtered_summary :
        /\ filtered_summary[k].Developer = dev
        /\ MonthLabel(filtered_summary[k].YearMonth) = label}

\* C13: for a filtered record set that is not empty the pivot view has one
\* row per developer of the records and below them the row of totals, one
\* column per month of the records; a cell holds the hours of the bucket of
\* its developer and month, 0 when there is none; the total of a column is
\* the sum of the hours of the records of its month; the totals add up to
\* the hours of all records, and the working days of the buckets to the
\* number of records.
C13_PivotConserves ==
    (pc = "shown" /\ filtered_df # <<>>) =>
        /\ Len(pivot_with_totals.index) = Cardinality(developers(filtered_df)) + 1
        /\ {pivot_with_totals.index[i] : i \in 1..(Len(pivot_with_totals.index) - 1)}
              = developers(filtered_df)
        /\ pivot_with_totals.index[Len(pivot_with_totals.index)] = TotalLabel
        /\ Len(pivot_with_totals.columns)
              = Cardinality({filtered_df[k].YearMonth : k \in DOMAIN filtered_df})
        /\ {pivot_with_totals.columns[j] : j \in DOMAIN pivot_with_totals.columns}
              = {MonthLabel(filtered_df[k].YearMonth) : k \in DOMAIN filtered_df}
        /\ Len(pivot_with_totals.cells) = Len(pivot_with_totals.index)
        /\ \A i \in 1..(Len(pivot_with_totals.index) - 1) :
           \A j \in DOMAIN pivot_with_totals.columns :
              IF BucketsAt(pivot_with_totals.index[i], pivot_with_totals.columns[j]) = {}
              THEN pivot_with_totals.cells[i][j] = 0
              ELSE /\ Cardinality(BucketsAt(pivot_with_totals.index[i],
                                            pivot_with_totals.columns[j])) = 1
                   /\ \A k \in BucketsAt(pivot_with_totals.index[i],
                                         pivot_with_totals.columns[j]) :
                          pivot_with_totals.cells[i][j] = filtered_summary[k].Hours
        /\ \A j \in DOMAIN pivot_with_totals.columns :
              pivot_with_totals.cells[Len(pivot_with_totals.index)][j]
                  = FilteredHours(FilteredIn(pivot_with_totals.columns[j]))
        /\ SumNumbers(pivot_with_totals.cells[Len(pivot_with_totals.index)])
              = FilteredHours(DOMAIN filtered_df)
        /\ SumWorkingDays(filtered_summary) = Len(filtered_df)

\* A date range that leaves a record out and two developers in a month
\* each: two rows with a cell of 0 in each, the row of totals, and the
\* label of February ahead of the label of January.
C13_Witness ==
    /\ pc = "shown"
    /\ Len(date_range) = 2
    /\ selected_developers = developers(combined_df)
    /\ Len(filtered_df) = 2 /\ Len(combined_df) = 3
    /\ Len(pivot_with_totals.index) = 3
    /\ pivot_with_totals.columns
          = <<MonthLabel(<<2024, 2>>), MonthLabel(<<2024, 1>>)>>
    /\ \A i \in 1..2 : \E j \in 1..2 : pivot_with_totals.cells[i][j] = 0
    /\ pivot_with_totals.cells[3][1] > 0 /\ pivot_with_totals.cells[3][2] > 0

=============================================================================
